---- MODULE Spec2Model ----
(***************************************************************************)
(* Model of the PayPal e-mail ingestion of rake-festival:                  *)
(*   donations/utils.py                       the e-mail parser            *)
(*   donations/management/commands/pull_paypal_emails.py                   *)
(*                                            the ingestion command        *)
(*   donations/models.py                      the ledger (Donor, Donation) *)
(*                                                                         *)
(* One run of Command.handle is a process whose position is run[p].pc.     *)
(* Every call that leaves the process (IMAP command, database statement,   *)
(* file write) is one step, with the outcomes the library can produce      *)
(* drawn nondeterministically.                                             *)
(***************************************************************************)
EXTENDS Integers, Sequences, FiniteSets, TLC

\* ------------------------------------------------------------------------
\* Bounds of the model
\* ------------------------------------------------------------------------

\* Number of messages in the folder.
NMsg == 2

\* Number of runs of the command in one behaviour.
MaxRuns == 2

\* Number of operations of the environment (IMAP server, database, file
\* system) that fail in one behaviour.
MaxFaults == 1

\* Number of tokens of an amount string that is normalized on its own.
AmtLen == 3

\* Number of labeled amounts in a body that is parsed on its own.
MaxLabeled == 2

\* Number of leaf parts of a message whose payload is extracted on its own.
MaxParts == 2

\* Number of items of a state file that is loaded on its own.
MaxItems == 2

\* Number of seen_tx.add calls before a state is saved on its own.
MaxAdds == 3

\* Number of rows of the Donation table the endpoint and direct creates
\* fill.
MaxRows == 3

\* Number of captures of a purchase unit the gateway reports.
MaxCaptures == 2

\* ------------------------------------------------------------------------
\* Optional values: None is <<>>, Some(x) is <<x>>
\* ------------------------------------------------------------------------

None == <<>>

Some(x) == <<x>>

\* ------------------------------------------------------------------------
\* donations/utils.py : _normalize_amount_to_decimal
\* An amount string is a sequence of tokens: the digits, ".", ",", "€",
\* " " (any of the whitespace variants), "EUR", "eur", "NaN" (in any
\* letter case) and other text ("x").
\* A Decimal quantized to 0.01 is represented by its number of cents; the
\* Decimal NaN has nan set.
\* ------------------------------------------------------------------------

Digits == <<"0", "1", "2", "3", "4", "5", "6", "7", "8", "9">>

IsDigit(c) == \E i \in DOMAIN Digits : Digits[i] = c

DigitVal(c) == (CHOOSE i \in DOMAIN Digits : Digits[i] = c) - 1

\* re.sub(pattern, "", s): the tokens of s that are not in drop.
RECURSIVE Remove(_, _)
Remove(s, drop) ==
    IF s = <<>> THEN <<>>
    ELSE IF Head(s) \in drop THEN Remove(Tail(s), drop)
         ELSE <<Head(s)>> \o Remove(Tail(s), drop)

\* str.replace(old, new) for single tokens.
Replace(s, old, new) == [i \in DOMAIN s |-> IF s[i] = old THEN new ELSE s[i]]

Contains(s, c) == \E i \in DOMAIN s : s[i] = c

\* str.rfind(c): the last index of c, -1 when absent (0-based in Python,
\* 1-based here; only the comparison of two results is used).
RFind(s, c) ==
    IF Contains(s, c) THEN CHOOSE i \in DOMAIN s :
                               s[i] = c /\ \A j \in DOMAIN s : s[j] = c => j <= i
    ELSE -1

\* Value of a sequence of digits.
RECURSIVE DigitsValue(_)
DigitsValue(s) ==
    IF s = <<>> THEN 0
    ELSE 10 * DigitsValue(SubSeq(s, 1, Len(s) - 1)) + DigitVal(s[Len(s)])

\* Decimal(s): s parses when it holds digits and at most one ".", and at
\* least one digit.
DecimalParses(s) ==
    /\ \A i \in DOMAIN s : IsDigit(s[i]) \/ s[i] = "."
    /\ \E i \in DOMAIN s : IsDigit(s[i])
    /\ Cardinality({i \in DOMAIN s : s[i] = "."}) <= 1

\* Decimal(s) also accepts a quiet NaN: "NaN" followed by digits only.
\* quantize returns a quiet NaN unchanged.
DecimalIsNaN(s) ==
    /\ s # <<>>
    /\ s[1] = "NaN"
    /\ \A i \in 2..Len(s) : IsDigit(s[i])

\* The Decimal values.
Finite(cents) == [nan |-> FALSE, cents |-> cents]

DecimalNaN == [nan |-> TRUE, cents |-> 0]

\* Decimal(s).quantize(Decimal("0.01")), ROUND_HALF_EVEN, in cents.
Quantize(s) ==
    LET dot   == IF Contains(s, ".") THEN RFind(s, ".") ELSE Len(s) + 1
        ip    == SubSeq(s, 1, dot - 1)
        fp    == SubSeq(s, dot + 1, Len(s))
        d(k)  == IF k <= Len(fp) THEN DigitVal(fp[k]) ELSE 0
        base  == 100 * DigitsValue(ip) + 10 * d(1) + d(2)
        rest  == SubSeq(fp, 3, Len(fp))
        first == IF rest = <<>> THEN 0 ELSE DigitVal(rest[1])
        more  == \E k \in 2..Len(rest) : DigitVal(rest[k]) > 0
        up    == \/ first > 5
                 \/ first = 5 /\ more
                 \/ first = 5 /\ ~more /\ base % 2 = 1
    IN  IF up THEN base + 1 ELSE base

normalize_amount_to_decimal(amount_str) ==
    IF amount_str = <<>> THEN None
    ELSE
      LET s0 == Remove(amount_str, {"EUR", "eur", "€", " "})
          has_comma == Contains(s0, ",")
          has_dot == Contains(s0, ".")
          s1 == IF has_comma /\ has_dot
                THEN IF RFind(s0, ",") > RFind(s0, ".")
                     THEN Replace(Remove(s0, {"."}), ",", ".")
                     ELSE Remove(s0, {","})
                ELSE IF has_comma THEN Replace(s0, ",", ".")
                ELSE s0
      IN  IF DecimalParses(s1) THEN Some(Finite(Quantize(s1)))
          ELSE IF DecimalIsNaN(s1) THEN Some(DecimalNaN)
          ELSE None

\* ------------------------------------------------------------------------
\* donations/utils.py : parse_paypal_email
\* The text of a body is represented by what the module's regular
\* expressions find in it after _strip_tags_to_text, in text order:
\*   empty     the raw body is the empty string
\*   negative  _NEGATIVE_RE matches
\*   tx        the captures of _TX_RE
\*   labeled   the captures of _AMT_LABELED_RE, each with its label
\*   fallback  the captures of _AMT_FALLBACK_RE
\*   von       the captures of _PAYER_LABEL_RE
\*   hero      the captures of _PAYER_HERO_RE
\* ------------------------------------------------------------------------

\* re.search: the first match, None when there is none.
Search(matches) == IF matches = <<>> THEN None ELSE Some(matches[1])

\* The second operand, whatever the first is.
OrElse_Second(a, b) == b

\* a or b, for match objects.
OrElse(a, b) == IF a # None THEN a ELSE b

\* The parser without the negative-signal check of lines 80-82.
parse_paypal_email_NoNegativeCheck(raw) ==
    IF raw.empty THEN None
    ELSE
      LET txm == Search(raw.tx)
          amt_match == OrElse(Search([i \in DOMAIN raw.labeled |-> raw.labeled[i].val]),
                              Search(raw.fallback))
          m == OrElse(Search(raw.von), Search(raw.hero))
      IN  IF txm = None THEN None
          ELSE IF amt_match = None THEN None
          ELSE LET amount == normalize_amount_to_decimal(amt_match[1])
               IN  IF amount = None THEN None
                   ELSE Some([transaction_id |-> txm[1],
                              amount |-> amount[1],
                              currency |-> "EUR",
                              payer_name |-> IF m = None THEN "" ELSE m[1]])

parse_paypal_email(raw) ==
    IF raw.empty THEN None
    ELSE IF raw.negative THEN None
    ELSE
      LET txm == Search(raw.tx)
          amt_match == OrElse(Search([i \in DOMAIN raw.labeled |-> raw.labeled[i].val]),
                              Search(raw.fallback))
          m == OrElse(Search(raw.von), Search(raw.hero))
      IN  IF txm = None THEN None
          ELSE IF amt_match = None THEN None
          ELSE LET amount == normalize_amount_to_decimal(amt_match[1])
               IN  IF amount = None THEN None
                   ELSE Some([transaction_id |-> txm[1],
                              amount |-> amount[1],
                              currency |-> "EUR",
                              payer_name |-> IF m = None THEN "" ELSE m[1]])

\* ------------------------------------------------------------------------
\* pull_paypal_emails.py : _extract_payload
\* A message has the header facts the allowlist reads and a list of parts
\* in walk() order; a part has a content type, a disposition and a payload
\* (None for a container part).
\* ------------------------------------------------------------------------

EmptyBody ==
    [empty |-> TRUE, negative |-> FALSE, tx |-> <<>>, labeled |-> <<>>,
     fallback |-> <<>>, von |-> <<>>, hero |-> <<>>]

\* First index of parts whose content type is ctype, 0 when there is none.
FirstPart(parts, ctype) ==
    IF \E i \in DOMAIN parts : parts[i].ctype = ctype
    THEN CHOOSE i \in DOMAIN parts :
             parts[i].ctype = ctype /\ \A j \in DOMAIN parts : parts[j].ctype = ctype => i <= j
    ELSE 0

\* The body text that is parsed: the payload of the first text/html part,
\* else of the first text/plain part; "" when the chosen payload is None.
extract_payload(msg) ==
    LET pick == IF msg.multipart
                THEN IF FirstPart(msg.parts, "text/html") # 0
                        /\ msg.parts[FirstPart(msg.parts, "text/html")].payload # None
                     THEN FirstPart(msg.parts, "text/html")
                     ELSE FirstPart(msg.parts, "text/plain")
                ELSE 1
    IN  IF pick = 0 \/ msg.parts[pick].payload = None THEN EmptyBody
        ELSE msg.parts[pick].payload[1]

\* The allowlist of the loop: "paypal" in Subject or in From.
LooksLikePayPal_Always(msg) == TRUE

LooksLikePayPal(msg) == msg.subject_paypal \/ msg.from_paypal

\* ------------------------------------------------------------------------
\* The messages a folder can hold
\* ------------------------------------------------------------------------

TxA == "9AB12345C6789012"

TxB == "1CD98765E4321098"

\* Python's order of the strings a dedup set can hold (sorted() in
\* _save_state): the two transaction ids and "7".
TxOrder == <<TxB, "7", TxA>>

ReceivedBody(tx, label, amt, von) ==
    [empty |-> FALSE, negative |-> FALSE, tx |-> <<tx>>,
     labeled |-> <<[label |-> label, val |-> amt] >>, fallback |-> <<>>,
     von |-> von, hero |-> <<>>]

FlatMessage(subject_paypal, from_paypal, body) ==
    [subject_paypal |-> subject_paypal, from_paypal |-> from_paypal,
     multipart |-> FALSE,
     parts |-> <<[ctype |-> "text/plain", attachment |-> FALSE, payload |-> Some(body)]>>]

\* "Du hast eine Zahlung erhalten", Transaktionscode TxA, Betrag 12,50 EUR,
\* Von: Max Mustermann (the message of tests.py).
MsgGermanA ==
    FlatMessage(TRUE, TRUE,
        ReceivedBody(TxA, "Betrag", <<"1", "2", ",", "5", "0", " ", "EUR">>,
                     <<"Max Mustermann">>))

\* A second notification of the same payment, multipart with an HTML part,
\* the payer written in lower case.
MsgHtmlA ==
    [subject_paypal |-> TRUE, from_paypal |-> FALSE, multipart |-> TRUE,
     parts |-> <<[ctype |-> "multipart/alternative", attachment |-> FALSE, payload |-> None],
                 [ctype |-> "text/plain", attachment |-> FALSE, payload |-> Some(EmptyBody)],
                 [ctype |-> "text/html", attachment |-> FALSE,
                  payload |-> Some(ReceivedBody(TxA, "Amount",
                                     <<"€", "1", "2", ".", "5", "0">>,
                                     <<"max mustermann">>))]>>]

\* A received payment with another transaction id and no payer line.
MsgGermanB ==
    FlatMessage(FALSE, TRUE,
        ReceivedBody(TxB, "Erhaltener Betrag",
                     <<"1", ".", "2", "3", "4", ",", "5", "6", " ", "EUR">>, <<>>))

\* "Du hast eine Zahlung gesendet": a negative signal beside valid fields.
MsgSent ==
    FlatMessage(TRUE, TRUE,
        [ReceivedBody(TxB, "Betrag", <<"5", ",", "0", "0">>, <<"Max Mustermann">>)
            EXCEPT !.negative = TRUE])

\* A well-formed received-payment text in a message that does not name
\* paypal in Subject or From.
MsgOther ==
    FlatMessage(FALSE, FALSE,
        ReceivedBody(TxB, "Betrag", <<"7", ",", "0", "0">>, <<"Erika Musterfrau">>))

\* Two received payments of one payer whose name holds letters outside
\* ASCII, written in mixed case by one message and in capitals by the other.
MsgUmlautA ==
    FlatMessage(TRUE, TRUE,
        ReceivedBody(TxA, "Betrag", <<"5", ",", "0", "0">>, <<"Jörg Müller">>))

MsgUmlautB ==
    FlatMessage(TRUE, TRUE,
        ReceivedBody(TxB, "Betrag", <<"5", ",", "0", "0">>, <<"JÖRG MÜLLER">>))

Catalogue ==
    <<MsgOther, MsgGermanA, MsgSent, MsgHtmlA, MsgUmlautA, MsgGermanB, MsgUmlautB>>

\* ------------------------------------------------------------------------
\* pull_paypal_emails.py : the state store
\* The state file is a document: kind is "missing" (no file), "invalid"
\* (not JSON), "scalar" (a JSON number, true, false or null), "string" (a
\* JSON string), "keys" (an object without the key seen_tx_ids), "array" (a
\* bare array) or "object" (an object whose seen_tx_ids is an array).
\* items is what iterating the loaded value yields: the elements of the
\* array, the characters of the string, the keys of the object.  A JSON
\* value is held with its type and with what str() makes of it.
\* ------------------------------------------------------------------------

\* The elements of a sequence, as a set.
Range(s) == {s[i] : i \in DOMAIN s}

JsonString(s) == [type |-> "string", str |-> s]

JsonNumber(s) == [type |-> "number", str |-> s]

\* set(map(str, data)); a TypeError (data is not iterable), a missing file
\* and a JSON error give the empty set.
load_state(doc) ==
    IF doc.kind \in {"array", "object", "string", "keys"}
    THEN {doc.items[i].str : i \in DOMAIN doc.items}
    ELSE {}

\* Only the smallest string of the set.
Sorted_FirstOnly(seen) ==
    LET in(t) == t \in seen
    IN  IF SelectSeq(TxOrder, in) = <<>> THEN <<>> ELSE <<SelectSeq(TxOrder, in)[1]>>

\* sorted(seen)
Sorted(seen) ==
    LET in(t) == t \in seen
    IN  SelectSeq(TxOrder, in)

\* The document _save_state writes: json.dumps(sorted(seen)).
save_state(seen) ==
    [kind |-> "array",
     items |-> [i \in DOMAIN Sorted(seen) |-> JsonString(Sorted(seen)[i])]]

\* ------------------------------------------------------------------------
\* donations/models.py and the donor resolution of the loop
\* donors is the Donor table in primary-key order (the names); donations is
\* the Donation table.  A Donation row holds amount and donor (0 for NULL);
\* tx, num and no record the transaction id, the message and the run the
\* row came from, which the table itself does not store.
\* ------------------------------------------------------------------------

\* str.lower() of the payer names of the catalogue.
Lower(name) ==
    CASE name = "Max Mustermann" -> "max mustermann"
      [] name = "Erika Musterfrau" -> "erika musterfrau"
      [] name = "Jörg Müller" -> "jörg müller"
      [] name = "JÖRG MÜLLER" -> "jörg müller"
      [] OTHER -> name

\* The payer names with the letters A to Z folded and no other: the case
\* folding of LIKE in SQLite.
AsciiLower(name) ==
    CASE name = "Max Mustermann" -> "max mustermann"
      [] name = "Erika Musterfrau" -> "erika musterfrau"
      [] name = "Jörg Müller" -> "jörg müller"
      [] name = "JÖRG MÜLLER" -> "jÖrg mÜller"
      [] OTHER -> name

\* The database engines settings.py can select: SQLite by default,
\* PostgreSQL when DATABASE_URL names one.
Engines == {"sqlite3", "postgresql"}

\* name__iexact: LIKE ... ESCAPE in SQLite, UPPER(name) = UPPER(payer) in
\* PostgreSQL.
IExact(a, b, engine) ==
    IF engine = "sqlite3" THEN AsciiLower(a) = AsciiLower(b) ELSE Lower(a) = Lower(b)

\* Donor.objects.filter(name__iexact=payer).first(): the primary key of the
\* first match, 0 for None.
FirstDonor(table, payer, engine) ==
    IF \E i \in DOMAIN table : IExact(table[i], payer, engine)
    THEN CHOOSE i \in DOMAIN table :
             /\ IExact(table[i], payer, engine)
             /\ \A j \in DOMAIN table : IExact(table[j], payer, engine) => i <= j
    ELSE 0

\* ------------------------------------------------------------------------
\* pull_paypal_emails.py : _search_ids and the options of handle
\* ------------------------------------------------------------------------

DefaultLimit == 50

Max(a, b) == IF a >= b THEN a ELSE b

Min(a, b) == IF a <= b THEN a ELSE b

\* limit = max(1, int(opts["limit"])) if opts["limit"] else 50
EffectiveLimit(opt) == IF opt # 0 THEN Max(1, opt) ELSE DefaultLimit

\* The values of --limit that are tried.
LimitOpts == {-1, 0, 1}

\* The message numbers of a folder of n messages that satisfy a search, in
\* ascending order.
Numbers(n, seen, unseen_only) ==
    LET hit(i) == ~unseen_only \/ i \notin seen
    IN  SelectSeq([i \in 1..n |-> i], hit)

\* _search_ids without the search for unread messages: the last limit
\* messages of the folder.
search_ids_AllOnly(n, seen, limit, typ_unseen, typ_all) ==
    LET all == Numbers(n, seen, FALSE)
    IN  IF typ_all # "OK" THEN <<>>
        ELSE IF limit # 0 /\ Len(all) > limit THEN SubSeq(all, Len(all) - limit + 1, Len(all))
        ELSE all

\* _search_ids without the slices by limit.
search_ids_Unbounded(n, seen, limit, typ_unseen, typ_all) ==
    LET unseen == Numbers(n, seen, TRUE)
        all    == Numbers(n, seen, FALSE)
    IN  IF typ_unseen = "OK" /\ unseen # <<>> THEN unseen
        ELSE IF typ_all # "OK" THEN <<>>
        ELSE all

\* typ_unseen and typ_all are the result types of the two SEARCH commands.
search_ids(n, seen, limit, typ_unseen, typ_all) ==
    LET unseen == Numbers(n, seen, TRUE)
        all    == Numbers(n, seen, FALSE)
    IN  IF typ_unseen = "OK" /\ unseen # <<>>
        THEN IF limit # 0 THEN SubSeq(unseen, 1, Min(limit, Len(unseen))) ELSE unseen
        ELSE IF typ_all # "OK" THEN <<>>
        ELSE IF limit # 0 /\ Len(all) > limit THEN SubSeq(all, Len(all) - limit + 1, Len(all))
        ELSE all

\* ------------------------------------------------------------------------
\* State
\* ------------------------------------------------------------------------

VARIABLES
    mail,       \* the folder: message number -> index into Catalogue
    flags,      \* the message numbers that carry \Seen
    stateFile,  \* the idempotency state file
    donors,     \* the Donor table
    donations,  \* the Donation table (committed rows)
    run,        \* process -> the locals of its run of Command.handle
    nRuns,      \* number of runs started so far
    faults,     \* number of failed operations of the environment so far
    call        \* a call of one of the module-level functions on its own

vars == <<mail, flags, stateFile, donors, donations, run, nRuns, faults, call>>

\* The processes that can run the command.
Procs == {"p1", "p2"}

\* The locals of handle before a run.  pc is the position in handle; ev is
\* the outcome of the last step; cmds are the IMAP commands issued; snap is
\* the shared state when the run started; pending holds the rows inserted
\* in the open transaction.atomic() block; rejected counts the messages the
\* allowlist or the parser rejected; flagged_created holds the messages
\* flagged on the path that creates a Donation; typ holds the result types
\* of the two SEARCH commands.
Idle ==
    [pc |-> "idle", ev |-> "", no |-> 0,
     dry |-> FALSE, mark_seen |-> FALSE, limit |-> 0,
     seen_tx |-> {}, loaded |-> {}, ids |-> <<>>, pos |-> 0, donor_obj |-> 0,
     processed |-> 0, created |-> 0, already_seen |-> 0, parse_failed |-> 0,
     exc |-> FALSE, returned |-> FALSE, authed |-> FALSE,
     pending |-> <<>>, cmds |-> {}, summary |-> FALSE, saved |-> FALSE,
     stderr |-> FALSE, rejected |-> 0, flagged_created |-> {}, typ |-> <<>>,
     snap |-> [flags |-> {}, stateFile |-> [kind |-> "missing", items |-> <<>>],
               donors |-> <<>>, donations |-> <<>>]]

\* No function is called on its own while the command runs.
NoCall == [fn |-> "none", arg |-> <<>>, res |-> <<>>, done |-> FALSE]

\* The folders of n messages: the messages are drawn from the catalogue,
\* each at most once, and stand in the folder in catalogue order.
Folders(n) ==
    {f \in [1..n -> DOMAIN Catalogue] : \A i \in 1..(n - 1) : f[i] < f[i + 1]}

\* A fresh deployment: no message is read, there is no state file and the
\* ledger is empty.
Init ==
    /\ mail \in UNION {Folders(n) : n \in 0..NMsg}
    /\ flags = {}
    /\ stateFile = [kind |-> "missing", items |-> <<>>]
    /\ donors = <<>>
    /\ donations = <<>>
    /\ run = [p \in Procs |-> Idle]
    /\ nRuns = 0
    /\ faults = 0
    /\ call = NoCall

\* ------------------------------------------------------------------------
\* Helpers of the steps
\* ------------------------------------------------------------------------

Ended(l) == l.pc \in {"done", "raised"}

\* The message the loop is at.
Num(l) == l.ids[l.pos]

Msg(l) == Catalogue[mail[Num(l)]]

\* body, ctype = _extract_payload(msg); parsed = parse_paypal_email(body),
\* for each message of the catalogue.
ParsedCatalogue ==
    [k \in DOMAIN Catalogue |-> parse_paypal_email(extract_payload(Catalogue[k]))]

Parsed(l) == ParsedCatalogue[mail[Num(l)]]

\* continue / the end of the loop body: the next id, or the finally block.
Continue(l) ==
    IF l.pos < Len(l.ids)
    THEN [l EXCEPT !.pos = @ + 1, !.pc = "fetch"]
    ELSE [l EXCEPT !.pos = @ + 1, !.pc = "finally"]

\* An exception that leaves handle without passing the finally block.
Raise_PastFinally(l) == [l EXCEPT !.exc = TRUE, !.pending = <<>>, !.pc = "raised"]

\* An exception leaves the try block: the open transaction is rolled back.
Raise(l) == [l EXCEPT !.exc = TRUE, !.pending = <<>>, !.pc = "finally"]

\* The guard without its dry-run half.
ShouldStore_IgnoringDry(mark_seen, dry) == mark_seen

\* if mark_seen and not dry
ShouldStore(mark_seen, dry) == mark_seen /\ ~dry

\* The dedup check dropped.
IsDuplicate_Never(tx, seen_tx) == FALSE

\* tx in seen_tx
IsDuplicate(tx, seen_tx) == tx \in seen_tx

\* The end of such a branch without its M.store.
FlagAndContinue_Never(l) == Continue(l)

\* The end of a branch that may flag the message and continues.
FlagAndContinue(l) ==
    IF ShouldStore(l.mark_seen, l.dry) THEN [l EXCEPT !.pc = "store"] ELSE Continue(l)

\* The outcomes an operation of the environment can have now: every one
\* while failures remain in the budget, the successful one after that.
Outcomes(all, good) == IF faults < MaxFaults THEN all ELSE good

\* The step counts a failure when its outcome is not the successful one.
Fault(failed) == faults' = IF failed THEN faults + 1 ELSE faults

\* ------------------------------------------------------------------------
\* Command.handle, step by step
\* ------------------------------------------------------------------------

\* Lines 127-143: the credentials check, the options and _load_state.
\* A dry run is started with mark_seen at its default, true: the flag is
\* read only in "mark_seen and not dry".
Start(p) ==
    /\ run[p].pc \in {"idle", "done", "raised"}
    /\ nRuns < MaxRuns
    /\ nRuns' = nRuns + 1
    /\ \E creds, dry, mark_seen \in BOOLEAN, opt \in LimitOpts :
          /\ dry => mark_seen
          /\ run' = [run EXCEPT ![p] =
                    IF ~creds
                    THEN [Idle EXCEPT !.pc = "raised", !.ev = "no_credentials",
                                      !.no = nRuns + 1, !.exc = TRUE,
                                      !.snap = [flags |-> flags, stateFile |-> stateFile,
                                                donors |-> donors, donations |-> donations]]
                    ELSE [Idle EXCEPT !.pc = "connect", !.ev = "started",
                                      !.no = nRuns + 1,
                                      !.dry = dry, !.mark_seen = mark_seen,
                                      !.limit = EffectiveLimit(opt),
                                      !.seen_tx = load_state(stateFile),
                                      !.loaded = load_state(stateFile),
                                      !.snap = [flags |-> flags, stateFile |-> stateFile,
                                                donors |-> donors, donations |-> donations]]]
    /\ UNCHANGED <<call, mail, flags, stateFile, donors, donations, faults>>

\* A failed connect or login that is swallowed: the run goes on.
ConnectFailed_Swallowed(l) == [l EXCEPT !.pc = "select", !.ev = "connect_failed"]

\* What a failed connect or login leads to: the exception leaves handle
\* (line 146 is outside the try block).
ConnectFailed(l) == [l EXCEPT !.pc = "raised", !.exc = TRUE, !.ev = "connect_failed"]

\* Lines 145-148: _imap_connect (IMAP4_SSL and login).
Connect(p) ==
    /\ run[p].pc = "connect"
    /\ \E ok \in Outcomes(BOOLEAN, {TRUE}) :
          /\ Fault(~ok)
          /\ run' = [run EXCEPT ![p] =
                       IF ok THEN [@ EXCEPT !.pc = "select", !.authed = TRUE,
                                            !.ev = "connected"]
                       ELSE ConnectFailed(@)]
    /\ UNCHANGED <<call, mail, flags, stateFile, donors, donations, nRuns>>

\* Lines 150-151: _select_folder; a type other than OK raises CommandError.
SelectFolder(p) ==
    /\ run[p].pc = "select"
    /\ \E typ \in Outcomes({"OK", "NO", "error"}, {"OK"}) :
          /\ Fault(typ # "OK")
          /\ run' = [run EXCEPT ![p] =
                       LET l == [@ EXCEPT !.cmds = @ \cup {"SELECT"}]
                       IN  IF typ = "OK" THEN [l EXCEPT !.pc = "search", !.ev = "selected"]
                           ELSE Raise([l EXCEPT !.ev = "select_failed"])]
    /\ UNCHANGED <<call, mail, flags, stateFile, donors, donations, nRuns>>

\* What "No messages to process." leads to (lines 153-155): return, through
\* the finally block.
NoMessages(l) == [l EXCEPT !.returned = TRUE, !.pc = "finally", !.ev = "no_messages"]

\* Lines 152-155: _search_ids and the early return.  SEARCH ALL is not
\* issued, and so does not fail, when SEARCH UNSEEN has found a message.
SearchIds(p) ==
    /\ run[p].pc = "search"
    /\ \/ \E typ_unseen, typ_all \in Outcomes({"OK", "NO"}, {"OK"}) :
            /\ (typ_unseen = "OK" /\ Numbers(Len(mail), flags, TRUE) # <<>>)
                   => typ_all = "OK"
            /\ Fault(typ_unseen # "OK" \/ typ_all # "OK")
            /\ run' = [run EXCEPT ![p] =
                         LET ids == search_ids(Len(mail), flags, @.limit, typ_unseen, typ_all)
                             l   == [@ EXCEPT !.cmds = @ \cup {"SEARCH"}, !.ids = ids,
                                              !.typ = <<typ_unseen, typ_all>>]
                         IN  IF ids = <<>> THEN NoMessages(l)
                             ELSE [l EXCEPT !.pos = 1, !.pc = "fetch", !.ev = "searched"]]
       \/ /\ faults < MaxFaults
          /\ Fault(TRUE)
          /\ run' = [run EXCEPT ![p] =
                       Raise([@ EXCEPT !.cmds = @ \cup {"SEARCH"}, !.ev = "search_failed"])]
    /\ UNCHANGED <<call, mail, flags, stateFile, donors, donations, nRuns>>

\* What a fetch answered with a type other than OK, or with no data, leads
\* to (lines 159-160).
FetchNotOk(l) == Continue([l EXCEPT !.ev = "fetch_no"])

\* What a fetch that raises leads to (line 158).
FetchRaised(l) == Raise([l EXCEPT !.ev = "fetch_error"])

\* Lines 157-160: M.fetch(num, "(RFC822)").
Fetch(p) ==
    /\ run[p].pc = "fetch"
    /\ \E typ \in Outcomes({"OK", "NO", "error"}, {"OK"}) :
          /\ Fault(typ # "OK")
          /\ run' = [run EXCEPT ![p] =
                       LET l == [@ EXCEPT !.cmds = @ \cup {"FETCH"}]
                       IN  CASE typ = "OK" -> [l EXCEPT !.pc = "decode", !.ev = "fetched"]
                             [] typ = "NO" -> FetchNotOk(l)
                             [] OTHER -> FetchRaised(l)]
    /\ UNCHANGED <<call, mail, flags, stateFile, donors, donations, nRuns>>

\* What a failure of email.message_from_bytes leads to (lines 165-167).
DecodeFailed(l) ==
    Continue([l EXCEPT !.parse_failed = @ + 1, !.ev = "decode_failed"])

\* Lines 162-167: data[0][1] and email.message_from_bytes.  The data of an
\* OK answer can hold no message (the message is gone): data[0][1] raises
\* outside the inner try.
Decode(p) ==
    /\ run[p].pc = "decode"
    /\ \E res \in Outcomes({"ok", "decode_failed", "bad_data"}, {"ok"}) :
          /\ Fault(res # "ok")
          /\ run' = [run EXCEPT ![p] =
                       CASE res = "ok" -> [@ EXCEPT !.pc = "classify", !.ev = "decoded"]
                         [] res = "decode_failed" -> DecodeFailed(@)
                         [] OTHER -> Raise([@ EXCEPT !.ev = "bad_data"])]
    /\ UNCHANGED <<call, mail, flags, stateFile, donors, donations, nRuns>>

\* Lines 169-204: the allowlist, _extract_payload, parse_paypal_email and
\* the dedup check.
Classified(l) ==
    IF ~LooksLikePayPal(Msg(l))
    THEN FlagAndContinue([l EXCEPT !.processed = @ + 1, !.parse_failed = @ + 1,
                                   !.rejected = @ + 1, !.ev = "not_paypal"])
    ELSE IF Parsed(l) = None
    THEN FlagAndContinue([l EXCEPT !.processed = @ + 1, !.parse_failed = @ + 1,
                                   !.rejected = @ + 1, !.ev = "rejected"])
    ELSE IF IsDuplicate(Parsed(l)[1].transaction_id, l.seen_tx)
    THEN FlagAndContinue([l EXCEPT !.processed = @ + 1, !.already_seen = @ + 1,
                                   !.ev = "duplicate"])
    ELSE [l EXCEPT !.processed = @ + 1, !.pc = "donor", !.ev = "new"]

Classify(p) ==
    /\ run[p].pc = "classify"
    /\ run' = [run EXCEPT ![p] = Classified(@)]
    /\ UNCHANGED <<call, mail, flags, stateFile, donors, donations, nRuns, faults>>

\* Lines 179, 193, 203: M.store(num, "+FLAGS", "\\Seen") and continue.  The
\* result of store is not read: an answer NO leaves the flag unset.
Store(p) ==
    /\ run[p].pc = "store"
    /\ \E typ \in Outcomes({"OK", "NO", "error"}, {"OK"}) :
          /\ Fault(typ # "OK")
          /\ flags' = IF typ = "OK" THEN flags \cup {Num(run[p])} ELSE flags
          /\ run' = [run EXCEPT ![p] =
                       LET l == [@ EXCEPT !.cmds = @ \cup {"STORE"}]
                       IN  CASE typ = "OK" -> Continue([l EXCEPT !.ev = "store_ok"])
                             [] typ = "NO" -> Continue([l EXCEPT !.ev = "store_no"])
                             [] OTHER -> Raise([l EXCEPT !.ev = "store_error"])]
    /\ UNCHANGED <<call, mail, stateFile, donors, donations, nRuns>>

\* payer = (parsed.get("payer_name") or "").strip()
Payer(l) == Parsed(l)[1].payer_name

\* Lines 206-228: the donor is resolved or created (in autocommit, before
\* the dry-run check), by the database the settings select; then a dry run
\* reports the message and continues.
ResolveDonor(p) ==
    /\ run[p].pc = "donor"
    /\ \/ \E engine \in Engines :
          LET l     == run[p]
              found == IF Payer(l) = "" THEN 0 ELSE FirstDonor(donors, Payer(l), engine)
              make  == Payer(l) # "" /\ found = 0
              obj   == IF make THEN Len(donors) + 1 ELSE found
          IN  /\ donors' = IF make THEN Append(donors, Payer(l)) ELSE donors
              /\ Fault(FALSE)
              /\ run' = [run EXCEPT ![p] =
                           IF l.dry
                           THEN Continue([l EXCEPT !.donor_obj = obj, !.ev = "would_create"])
                           ELSE [l EXCEPT !.donor_obj = obj, !.pc = "insert",
                                          !.ev = "donor_resolved"]]
       \/ /\ Payer(run[p]) # ""
          /\ faults < MaxFaults
          /\ Fault(TRUE)
          /\ donors' = donors
          /\ run' = [run EXCEPT ![p] = Raise([@ EXCEPT !.ev = "donor_failed"])]
    /\ UNCHANGED <<call, mail, flags, stateFile, donations, nRuns>>

\* The row Donation.objects.create(**kwargs) inserts.
NewRow(l) ==
    [amount |-> Parsed(l)[1].amount, donor |-> l.donor_obj, message_id |-> None,
     tx |-> Parsed(l)[1].transaction_id, num |-> Num(l), no |-> l.no]

\* What a failing Donation.objects.create leads to: the exception leaves the
\* atomic block, the loop and the try block.
InsertFailed(l) == Raise([l EXCEPT !.ev = "insert_failed"])

\* The bookkeeping after the insert without seen_tx.add(tx).
Inserted_WithoutAdd(l) ==
    [l EXCEPT !.pending = Append(@, NewRow(l)),
              !.created = @ + 1,
              !.pc = IF l.mark_seen THEN "store_tx" ELSE "commit",
              !.ev = "inserted"]

\* The bookkeeping after the insert with seen_tx overwritten.
Inserted_Replacing(l) ==
    [l EXCEPT !.pending = Append(@, NewRow(l)),
              !.seen_tx = {Parsed(l)[1].transaction_id},
              !.created = @ + 1,
              !.pc = IF l.mark_seen THEN "store_tx" ELSE "commit",
              !.ev = "inserted"]

\* Lines 239-242: after Donation.objects.create the transaction id is
\* added to seen_tx and created is incremented; then the flag update, if
\* any, and the end of the atomic block.
Inserted(l) ==
    [l EXCEPT !.pending = Append(@, NewRow(l)),
              !.seen_tx = @ \cup {Parsed(l)[1].transaction_id},
              !.created = @ + 1,
              !.pc = IF l.mark_seen THEN "store_tx" ELSE "commit",
              !.ev = "inserted"]

\* Lines 231-241: transaction.atomic() is entered and the row is inserted.
Insert(p) ==
    /\ run[p].pc = "insert"
    /\ \E ok \in Outcomes(BOOLEAN, {TRUE}) :
          /\ Fault(~ok)
          /\ run' = [run EXCEPT ![p] = IF ok THEN Inserted(@) ELSE InsertFailed(@)]
    /\ UNCHANGED <<call, mail, flags, stateFile, donors, donations, nRuns>>

\* Lines 242-243: M.store inside the atomic block.
StoreInTx(p) ==
    /\ run[p].pc = "store_tx"
    /\ \E typ \in Outcomes({"OK", "NO", "error"}, {"OK"}) :
          /\ Fault(typ # "OK")
          /\ flags' = IF typ = "OK" THEN flags \cup {Num(run[p])} ELSE flags
          /\ run' = [run EXCEPT ![p] =
                       LET l == [@ EXCEPT !.cmds = @ \cup {"STORE"}]
                       IN  CASE typ = "OK" ->
                                  [l EXCEPT !.pc = "commit", !.ev = "store_ok",
                                            !.flagged_created = @ \cup {Num(run[p])}]
                             [] typ = "NO" -> [l EXCEPT !.pc = "commit", !.ev = "store_no"]
                             [] OTHER -> Raise([l EXCEPT !.ev = "store_error"])]
    /\ UNCHANGED <<call, mail, stateFile, donors, donations, nRuns>>

\* The exit of the atomic block (line 231): the commit, which can fail.
Commit(p) ==
    /\ run[p].pc = "commit"
    /\ \/ /\ Fault(FALSE)
          /\ donations' = donations \o run[p].pending
          /\ run' = [run EXCEPT ![p] =
                       Continue([@ EXCEPT !.pending = <<>>, !.ev = "committed"])]
       \/ /\ faults < MaxFaults
          /\ Fault(TRUE)
          /\ donations' = donations
          /\ run' = [run EXCEPT ![p] = Raise([@ EXCEPT !.ev = "commit_failed"])]
    /\ UNCHANGED <<call, mail, flags, stateFile, donors, nRuns>>

\* Lines 245-250: the finally block.  Exceptions of close are swallowed;
\* logout can raise.  Then the pending exception, the return or the fall
\* through to line 252.
Finally(p) ==
    /\ run[p].pc = "finally"
    /\ \E logout_ok \in Outcomes(BOOLEAN, {TRUE}) :
          /\ Fault(~logout_ok)
          /\ run' = [run EXCEPT ![p] =
                       LET l == [@ EXCEPT !.cmds = @ \cup {"CLOSE", "LOGOUT"}]
                       IN  IF l.exc \/ ~logout_ok
                           THEN [l EXCEPT !.pc = "raised", !.exc = TRUE]
                           ELSE IF l.returned THEN [l EXCEPT !.pc = "done"]
                           ELSE [l EXCEPT !.pc = "finish"]]
    /\ UNCHANGED <<call, mail, flags, stateFile, donors, donations, nRuns>>

\* A failing _save_state whose exception is not caught.
SaveStateFailed_Raising(l) ==
    [l EXCEPT !.saved = TRUE, !.exc = TRUE, !.pc = "raised", !.ev = "save_failed"]

\* What a failing _save_state leads to (lines 254-257): the exception is
\* caught and written to stderr, and the summary line follows.
SaveStateFailed(l) ==
    [l EXCEPT !.saved = TRUE, !.stderr = TRUE, !.summary = TRUE, !.pc = "done",
              !.ev = "save_failed"]

\* Lines 252-263: _save_state in a real run (a failure is written to
\* stderr), then the summary line.
Finish(p) ==
    /\ run[p].pc = "finish"
    /\ \/ /\ run[p].dry
          /\ Fault(FALSE)
          /\ stateFile' = stateFile
          /\ run' = [run EXCEPT ![p] = [@ EXCEPT !.summary = TRUE, !.pc = "done",
                                                 !.ev = "summary"]]
       \/ /\ ~run[p].dry
          /\ \E ok \in Outcomes(BOOLEAN, {TRUE}) :
                /\ Fault(~ok)
                /\ stateFile' = IF ok THEN save_state(run[p].seen_tx) ELSE stateFile
                /\ run' = [run EXCEPT ![p] =
                             IF ok THEN [@ EXCEPT !.saved = TRUE, !.summary = TRUE,
                                                  !.pc = "done", !.ev = "summary"]
                             ELSE SaveStateFailed(@)]
    /\ UNCHANGED <<call, mail, flags, donors, donations, nRuns>>

\* ------------------------------------------------------------------------
\* Specifications
\* ------------------------------------------------------------------------

Step(p) ==
    \/ Start(p)
    \/ Connect(p)
    \/ SelectFolder(p)
    \/ SearchIds(p)
    \/ Fetch(p)
    \/ Decode(p)
    \/ Classify(p)
    \/ Store(p)
    \/ ResolveDonor(p)
    \/ Insert(p)
    \/ StoreInTx(p)
    \/ Commit(p)
    \/ Finally(p)
    \/ Finish(p)

\* Runs that do not overlap: one process, which runs the command again and
\* again (the beat schedule, a run ending before the next starts).
Next == Step("p1")

Spec == Init /\ [][Next]_vars

\* Runs that overlap: nothing in the command keeps a second process from
\* running it on the same mailbox, state file and database while the first
\* is at work (a beat that fires again before the task has ended, or a
\* run by hand).  Two runs are started and the environment does not fail.
OverlapInit ==
    /\ mail \in Folders(NMsg)
    /\ flags = {}
    /\ stateFile = [kind |-> "missing", items |-> <<>>]
    /\ donors = <<>>
    /\ donations = <<>>
    /\ run = [p \in Procs |-> Idle]
    /\ nRuns = MaxRuns - 2
    /\ faults = MaxFaults
    /\ call = NoCall

OverlapNext == \E p \in Procs : Step(p)

OverlapSpec == OverlapInit /\ [][OverlapNext]_vars

\* Runs as the beat schedule starts them, one after the other: real runs
\* with credentials and mark_seen enabled (the default of the option),
\* against an environment that does not fail.  As many runs are started as
\* the folder holds messages at most.
ScheduledInit ==
    /\ mail \in UNION {Folders(n) : n \in 0..Min(NMsg, MaxRuns)}
    /\ flags = {}
    /\ stateFile = [kind |-> "missing", items |-> <<>>]
    /\ donors = <<>>
    /\ donations = <<>>
    /\ run = [p \in Procs |-> Idle]
    /\ nRuns = 0
    /\ faults = MaxFaults
    /\ call = NoCall

ScheduledNext ==
    /\ Step("p1")
    /\ run'["p1"].pc # "raised"
    /\ ~run'["p1"].dry
    /\ run'["p1"].mark_seen

\* The worker goes on with a run it has started, and the beat starts the
\* next run when the last one has ended.
ScheduledSpec == ScheduledInit /\ [][ScheduledNext]_vars /\ WF_vars(ScheduledNext)

\* ------------------------------------------------------------------------
\* donations/models.py : the Donation table
\* ------------------------------------------------------------------------

\* message_id = CharField(null=True, unique=True), without the constraint.
Conflicts_Never(table, row) == FALSE

\* message_id = CharField(null=True, unique=True): the UNIQUE constraint of
\* the column.  A row conflicts with a row of the same non-null
\* message_id; NULL conflicts with nothing.
Conflicts(table, row) ==
    /\ row.message_id # None
    /\ \E i \in DOMAIN table : table[i].message_id = row.message_id

\* Donation.objects.create(**kwargs) in autocommit: the row is inserted, or
\* IntegrityError is raised and the table is left as it was.
create_donation(table, row) ==
    IF Conflicts(table, row)
    THEN [raised |-> "IntegrityError", table |-> table]
    ELSE [raised |-> "", table |-> Append(table, row)]

\* A row created outside the ingestion command: no donor, and no message
\* or run behind it.
DonationRow(amount, message_id) ==
    [amount |-> amount, donor |-> 0, message_id |-> message_id,
     tx |-> "", num |-> 0, no |-> 0]

\* ------------------------------------------------------------------------
\* donations/views.py : verify_paypal_order and CaptureView
\* ------------------------------------------------------------------------

\* The global names views.py binds: its imports (lines 1-8) and its
\* definitions.
ModuleNames ==
    {"Decimal", "JsonResponse", "View", "TemplateView", "Sum", "json",
     "Donation", "Goal", "Optional", "Dict",
     "TotalView", "IndexView", "ProgressView", "verify_paypal_order", "CaptureView"}

\* The outcome of a call: a value, or an exception that leaves it.
Returned(v) == [raised |-> "", value |-> v]

Raised(e) == [raised |-> e, value |-> None]

\* getattr(settings, name, None) or os.getenv(name): is the result truthy.
\* The global names settings and os are looked up when they are evaluated;
\* os only when the setting is missing or empty.
Lookup(name, g) ==
    IF "settings" \notin ModuleNames THEN Raised("NameError")
    ELSE IF name \in g.settings THEN Returned(<<name>>)
    ELSE IF "os" \notin ModuleNames THEN Raised("NameError")
    ELSE IF name \in g.environ THEN Returned(<<name>>)
    ELSE Returned(None)

\* Lines 77-130: the try block.  Every exception in it is caught and gives
\* None: a missing requests package, a failing call, a response that is no
\* JSON object, a value Decimal rejects.
verify_try(order_id, g) ==
    IF g.requests # "ok" THEN Returned(None)
    ELSE IF g.token.exc THEN Returned(None)
    ELSE IF g.token.status_code # 200 THEN Returned(None)
    ELSE IF ~g.token.access_token THEN Returned(None)
    ELSE IF g.order.exc THEN Returned(None)
    ELSE IF g.order.status_code # 200 THEN Returned(None)
    ELSE IF g.order.status # "COMPLETED" THEN Returned(None)
    ELSE IF g.order.purchase_units = <<>> THEN Returned(None)
    ELSE LET captures == g.order.purchase_units[1]
         IN  IF captures = <<>> THEN Returned(None)
             ELSE LET cap == captures[1]
                  IN  IF cap.status # "COMPLETED" THEN Returned(None)
                      ELSE IF cap.value = <<>> \/ cap.currency = "" THEN Returned(None)
                      ELSE IF DecimalParses(cap.value)
                      THEN Returned(Some([amount |-> Finite(Quantize(cap.value)),
                                          currency |-> cap.currency]))
                      ELSE IF DecimalIsNaN(cap.value)
                      THEN Returned(Some([amount |-> DecimalNaN,
                                          currency |-> cap.currency]))
                      ELSE Returned(None)

\* Lines 62-130.  g is the behaviour of the settings, the environment and
\* the gateway during the call.
verify_paypal_order(order_id, g) ==
    LET client_id == Lookup("PAYPAL_CLIENT_ID", g)
        secret    == Lookup("PAYPAL_SECRET", g)
        env       == Lookup("PAYPAL_ENV", g)
    IN  IF client_id.raised # "" THEN Raised(client_id.raised)
        ELSE IF secret.raised # "" THEN Raised(secret.raised)
        ELSE IF env.raised # "" THEN Raised(env.raised)
        ELSE IF client_id.value = None \/ secret.value = None THEN Returned(None)
        ELSE verify_try(order_id, g)

\* A response of the endpoint; an exception that leaves the view is
\* answered 500 by the handler of the framework.
Response(status, table) == [status |-> status, raised |-> "", table |-> table]

ServerError(e, table) == [status |-> 500, raised |-> e, table |-> table]

\* CaptureView.http_method_names
http_method_names == {"post"}

\* verify_paypal_order(order_id) as the view calls it: the function of the
\* module, or the mock tests.py puts in its place.
Verified(req) ==
    IF req.patch # None THEN Returned(req.patch[1])
    ELSE verify_paypal_order(req.order_id.str, req.gateway)

\* Lines 137-158: CaptureView.post.  json is what json.loads makes of the
\* body: "invalid" when it raises, else the type of the value.
post(req, table) ==
    IF req.json = "invalid" THEN Response(400, table)
    ELSE IF req.json # "object" THEN ServerError("AttributeError", table)
    ELSE IF req.order_id.type # "string" \/ req.order_id.str = ""
    THEN Response(400, table)
    ELSE LET result == Verified(req)
         IN  IF result.raised # "" THEN ServerError(result.raised, table)
             ELSE IF result.value = None THEN Response(400, table)
             ELSE IF result.value[1].currency # "EUR" THEN Response(400, table)
             ELSE LET made == create_donation(
                                  table, DonationRow(result.value[1].amount, None))
                  IN  IF made.raised # "" THEN ServerError(made.raised, table)
                      ELSE Response(201, made.table)

\* View.dispatch: a method outside http_method_names is answered 405.
dispatch(method, req, table) ==
    IF method \in http_method_names THEN post(req, table) ELSE Response(405, table)

\* The sequences over S of length at most n.
Seqs(S, n) == UNION {[1..k -> S] : k \in 0..n}

\* The captures the gateway reports.
GoodCapture ==
    [status |-> "COMPLETED", value |-> <<"1", "2", ".", "5", "0">>, currency |-> "EUR"]

CaptureOpts ==
    {GoodCapture,
     [GoodCapture EXCEPT !.status = "PENDING"],
     [GoodCapture EXCEPT !.currency = "USD"],
     [GoodCapture EXCEPT !.value = <<>>],
     [GoodCapture EXCEPT !.value = <<"NaN">>]}

\* A deployment with credentials and a gateway that reports a completed
\* order with one completed capture.
GoodGateway ==
    [settings |-> {}, environ |-> {"PAYPAL_CLIENT_ID", "PAYPAL_SECRET"},
     requests |-> "ok",
     token |-> [exc |-> FALSE, status_code |-> 200, access_token |-> TRUE],
     order |-> [exc |-> FALSE, status_code |-> 200, status |-> "COMPLETED",
                purchase_units |-> << <<GoodCapture>> >>]]

\* The behaviours of configuration and gateway: the good one, and the good
\* one changed in one place.
Gateways ==
    {[GoodGateway EXCEPT !.settings = s, !.environ = e] :
        s, e \in {{}, {"PAYPAL_CLIENT_ID"}, {"PAYPAL_CLIENT_ID", "PAYPAL_SECRET"}}}
    \cup {[GoodGateway EXCEPT !.requests = "missing"]}
    \cup {[GoodGateway EXCEPT !.token = t] :
            t \in {[exc |-> TRUE, status_code |-> 0, access_token |-> FALSE],
                   [exc |-> FALSE, status_code |-> 401, access_token |-> FALSE],
                   [exc |-> FALSE, status_code |-> 200, access_token |-> FALSE]}}
    \cup {[GoodGateway EXCEPT !.order.exc = TRUE]}
    \cup {[GoodGateway EXCEPT !.order.status_code = 404]}
    \cup {[GoodGateway EXCEPT !.order.status = s] : s \in {"APPROVED", ""}}
    \cup {[GoodGateway EXCEPT !.order.purchase_units = <<>>]}
    \cup {[GoodGateway EXCEPT !.order.purchase_units = <<caps>>] :
            caps \in Seqs(CaptureOpts, MaxCaptures)}

\* What the mock of tests.py returns, and two more return values.
MockResults ==
    {None,
     Some([amount |-> Finite(1250), currency |-> "EUR"]),
     Some([amount |-> Finite(1250), currency |-> "USD"])}

\* The order_id member of the body.
OrderIds ==
    {[type |-> "missing", str |-> ""], [type |-> "number", str |-> "5"],
     [type |-> "string", str |-> ""], [type |-> "string", str |-> "TEST_ORDER_123"]}

\* The requests: bodies that are no JSON, JSON values that are no object,
\* and objects; verify_paypal_order is mocked or runs against a gateway.
Requests ==
    {[json |-> j, order_id |-> [type |-> "missing", str |-> ""],
      patch |-> None, gateway |-> GoodGateway] : j \in {"invalid", "array", "null"}}
    \cup {[json |-> "object", order_id |-> o, patch |-> Some(m), gateway |-> GoodGateway] :
             o \in OrderIds, m \in MockResults}
    \cup {[json |-> "object", order_id |-> o, patch |-> None, gateway |-> GoodGateway] :
             o \in OrderIds}
    \cup {[json |-> "object", order_id |-> [type |-> "string", str |-> "TEST_ORDER_123"],
           patch |-> None, gateway |-> g] : g \in Gateways}

\* The requests to api/capture/: POST with each of the bodies, and GET.
CaptureCalls ==
    {[method |-> "post", req |-> r] : r \in Requests}
    \cup {[method |-> "get", req |-> r] :
             r \in {q \in Requests : q.patch = None /\ q.gateway = GoodGateway}}

\* ------------------------------------------------------------------------
\* The module-level functions, each called on its own
\* call.fn is the function, call.arg its argument, call.res its result once
\* call.done is set.  The state file of _load_state and _save_state is the
\* variable stateFile.
\* ------------------------------------------------------------------------

\* The tokens the amount strings are made of.
AmtTokens == {"0", "1", "5", ".", ",", "€", " ", "EUR", "NaN", "x"}

\* The amount strings of the specification and of tests.py, and three that
\* lie half way between two cents.
AmtExamples ==
    {<<"1", ".", "2", "3", "4", ",", "5", "6">>,
     <<"1", ",", "2", "3", "4", ".", "5", "6">>,
     <<"1", "2", "3", "4", ".", "5", "6">>,
     <<"1", "2", ",", "5", "0">>,
     <<"1", ".", "2", "3", "4", ",", "5", "6", " ", "EUR">>,
     <<"0", ",", "1", "2", "5">>,
     <<"0", ",", "1", "3", "5">>,
     <<"2", ".", "6", "7", "5", "1">>}

AmountStrings == Seqs(AmtTokens, AmtLen) \cup AmtExamples

\* What _AMT_LABELED_RE captures behind a label: an amount, or the white
\* space between the label and text that is no amount ("Betrag: siehe ...").
LabeledVals ==
    {<<"4", ",", "5", "0", " ", "EUR">>, <<"5", ",", "0", "0">>, <<" ">>}

LabeledOpts ==
    {[label |-> l, val |-> v] : l \in {"Erhaltener Betrag", "Betrag"}, v \in LabeledVals}

\* The bodies that are parsed: the empty string, and every combination of
\* what the regular expressions can find.
RawBodies ==
    {EmptyBody} \cup
    {[empty |-> FALSE, negative |-> n, tx |-> t, labeled |-> lab,
      fallback |-> f, von |-> v, hero |-> h] :
        n \in BOOLEAN, t \in {<<>>, <<TxA>>},
        lab \in Seqs(LabeledOpts, MaxLabeled),
        f \in {<<>>, << <<"€", "1", "2", ",", "5", "0">> >>},
        v \in {<<>>, <<"Max Mustermann">>},
        h \in {<<>>, <<"Erika Musterfrau">>}}

\* The body of the i-th leaf part of a message: it names its position.
PartBody(i) == [EmptyBody EXCEPT !.empty = FALSE, !.von = <<ToString(i)>>]

LeafParts(i) ==
    {[ctype |-> c, attachment |-> a, payload |-> Some(PartBody(i))] :
        c \in {"text/html", "text/plain", "application/pdf"}, a \in BOOLEAN}

\* The part walk() yields first for a multipart message: the container.
Container == [ctype |-> "multipart/mixed", attachment |-> FALSE, payload |-> None]

\* The messages whose payload is extracted: flat ones, and multipart ones
\* of up to MaxParts leaf parts, inline or attached.
UnitMessages ==
    {[subject_paypal |-> TRUE, from_paypal |-> TRUE, multipart |-> FALSE, parts |-> <<q>>] :
        q \in {r \in LeafParts(1) : ~r.attachment}}
    \cup
    {[subject_paypal |-> TRUE, from_paypal |-> TRUE, multipart |-> TRUE,
      parts |-> <<Container>> \o leaves] :
        leaves \in {f \in Seqs(UNION {LeafParts(i) : i \in 1..MaxParts}, MaxParts) :
                       f # <<>> /\ \A i \in DOMAIN f : f[i] \in LeafParts(i)}}

\* The JSON values of the state files that are loaded.
JsonValues == {JsonString(TxA), JsonString(TxB), JsonNumber("7")}

\* The state files that are loaded.
Docs ==
    {[kind |-> k, items |-> <<>>] : k \in {"missing", "invalid", "scalar"}}
    \cup {[kind |-> k, items |-> it] :
             k \in {"array", "object"}, it \in Seqs(JsonValues, MaxItems)}
    \cup {[kind |-> "string", items |-> it] : it \in Seqs({JsonString("7")}, MaxItems)}
    \cup {[kind |-> "keys", items |-> it] :
             it \in {f \in Seqs({JsonString(TxA), JsonString("7")}, MaxItems) :
                        \A i, j \in DOMAIN f : f[i] = f[j] => i = j}}

Call(fn, arg) == [fn |-> fn, arg |-> arg, res |-> <<>>, done |-> FALSE]

UnitCalls ==
    {Call("normalize", a) : a \in AmountStrings}
    \cup {Call("parse", r) : r \in RawBodies}
    \cup {Call("extract", m) : m \in UnitMessages}
    \cup {Call("load", <<>>)}
    \cup {Call("save", adds) : adds \in Seqs(Range(TxOrder), MaxAdds)}
    \cup {Call("verify", [order_id |-> "TEST_ORDER_123", gateway |-> g]) : g \in Gateways}

UnitInit ==
    /\ call \in UnitCalls
    /\ stateFile \in IF call.fn = "load" THEN Docs
                     ELSE {[kind |-> "missing", items |-> <<>>]}
    /\ mail = <<>>
    /\ flags = {}
    /\ donors = <<>>
    /\ donations = <<>>
    /\ run = [p \in Procs |-> Idle]
    /\ nRuns = 0
    /\ faults = 0

CallNormalize ==
    /\ call.fn = "normalize" /\ ~call.done
    /\ call' = [call EXCEPT !.res = normalize_amount_to_decimal(call.arg), !.done = TRUE]
    /\ UNCHANGED <<mail, flags, stateFile, donors, donations, run, nRuns, faults>>

CallParse ==
    /\ call.fn = "parse" /\ ~call.done
    /\ call' = [call EXCEPT !.res = parse_paypal_email(call.arg), !.done = TRUE]
    /\ UNCHANGED <<mail, flags, stateFile, donors, donations, run, nRuns, faults>>

CallExtract ==
    /\ call.fn = "extract" /\ ~call.done
    /\ call' = [call EXCEPT !.res = extract_payload(call.arg), !.done = TRUE]
    /\ UNCHANGED <<mail, flags, stateFile, donors, donations, run, nRuns, faults>>

\* seen = set(); seen.add(t) for each t of call.arg; _save_state(path, seen).
\* The state is loaded again by the next call.
CallSaveState ==
    /\ call.fn = "save" /\ ~call.done
    /\ stateFile' = save_state(Range(call.arg))
    /\ call' = [call EXCEPT !.fn = "reload"]
    /\ UNCHANGED <<mail, flags, donors, donations, run, nRuns, faults>>

CallLoadState ==
    /\ call.fn \in {"load", "reload"} /\ ~call.done
    /\ call' = [call EXCEPT !.res = load_state(stateFile), !.done = TRUE]
    /\ UNCHANGED <<mail, flags, stateFile, donors, donations, run, nRuns, faults>>

\* verify_paypal_order(order_id) under one behaviour of configuration and
\* gateway.
CallVerify ==
    /\ call.fn = "verify" /\ ~call.done
    /\ call' = [call EXCEPT !.res = verify_paypal_order(call.arg.order_id, call.arg.gateway),
                            !.done = TRUE]
    /\ UNCHANGED <<mail, flags, stateFile, donors, donations, run, nRuns, faults>>

UnitNext ==
    \/ CallNormalize
    \/ CallParse
    \/ CallExtract
    \/ CallSaveState
    \/ CallLoadState
    \/ CallVerify

UnitSpec == UnitInit /\ [][UnitNext]_vars

\* ------------------------------------------------------------------------
\* The Donation table and the capture endpoint, used on their own
\* ------------------------------------------------------------------------

\* The message ids of the rows that are created directly.
MessageIds == {None, Some("msg-abc"), Some("msg-def")}

ApiInit ==
    /\ call = NoCall
    /\ donations = <<>>
    /\ mail = <<>>
    /\ flags = {}
    /\ stateFile = [kind |-> "missing", items |-> <<>>]
    /\ donors = <<>>
    /\ run = [p \in Procs |-> Idle]
    /\ nRuns = 0
    /\ faults = 0

\* Donation.objects.create(amount=..., message_id=...), as in tests.py.
CreateDonation ==
    /\ \E message_id \in MessageIds :
          LET row  == DonationRow(Finite(100), message_id)
              made == create_donation(donations, row)
          IN  /\ Len(made.table) <= MaxRows
              /\ donations' = made.table
              /\ call' = [fn |-> "create", arg |-> [row |-> row, table |-> donations],
                          res |-> made, done |-> TRUE]
    /\ UNCHANGED <<mail, flags, stateFile, donors, run, nRuns, faults>>

\* A request to api/capture/.
Capture ==
    /\ \E c \in CaptureCalls :
          LET resp == dispatch(c.method, c.req, donations)
          IN  /\ Len(resp.table) <= MaxRows
              /\ donations' = resp.table
              /\ call' = [fn |-> "capture",
                          arg |-> [method |-> c.method, req |-> c.req, table |-> donations],
                          res |-> resp, done |-> TRUE]
    /\ UNCHANGED <<mail, flags, stateFile, donors, run, nRuns, faults>>

ApiNext ==
    \/ CreateDonation
    \/ Capture

ApiSpec == ApiInit /\ [][ApiNext]_vars

\* ------------------------------------------------------------------------
\* Properties of the ingestion loop
\* ------------------------------------------------------------------------

\* The rows a run has inserted: committed ones and those of its open
\* transaction.
RowsOf(l) ==
    {donations[i] : i \in {j \in DOMAIN donations : donations[j].no = l.no}}
        \cup Range(l.pending)

\* C1: cross-run idempotence.  Once a run has committed a Donation for a
\* transaction id, no later run commits another Donation for that id: no
\* two committed rows that come from different runs carry the same
\* transaction id.
C1_CrossRunIdempotence ==
    \A i, j \in DOMAIN donations :
        donations[i].no # donations[j].no => donations[i].tx # donations[j].tx

\* The message at hand parses to a transaction id that is in seen_tx.
AtDuplicate(l) ==
    /\ l.pc = "classify"
    /\ LooksLikePayPal(Msg(l))
    /\ Parsed(l) # None
    /\ Parsed(l)[1].transaction_id \in l.seen_tx

\* C2: within one real run at most one Donation is created per transaction
\* id, and the step that classifies a message whose transaction id is in
\* seen_tx looks up or creates no donor, inserts no Donation and adds
\* exactly one to already_seen.
C2_OneDonationPerTxPerRun ==
    /\ [](\A p \in Procs : \A r1, r2 \in RowsOf(run[p]) :
             ~run[p].dry /\ r1.tx = r2.tx => r1 = r2)
    /\ [][\A p \in Procs :
            AtDuplicate(run[p]) /\ ~run[p].dry /\ run'[p] # run[p] =>
                /\ donors' = donors
                /\ donations' = donations
                /\ run'[p].pending = run[p].pending
                /\ run'[p].pc \notin {"donor", "insert"}
                /\ run'[p].created = run[p].created
                /\ run'[p].already_seen = run[p].already_seen + 1]_vars

\* A real run is at a message whose transaction id was added to seen_tx by
\* a Donation this run created, and has counted it as already seen.
C2_Witness ==
    \E p \in Procs :
        /\ ~run[p].dry
        /\ run[p].pc = "store"
        /\ run[p].ev = "duplicate"
        /\ run[p].already_seen = 1
        /\ Parsed(run[p])[1].transaction_id \in run[p].seen_tx \ run[p].loaded
        /\ Cardinality(RowsOf(run[p])) = 1

\* C3: a dry run writes nothing to the ledger: the Donor table and the
\* Donation table are what they were when the run started.
C3_DryRunWritesNoLedger ==
    \A p \in Procs :
        run[p].dry /\ run[p].pc # "idle" =>
            /\ donors = run[p].snap.donors
            /\ donations = run[p].snap.donations
            /\ run[p].pending = <<>>

C5_FlagOnlyAfterCommit ==
    \A p \in Procs : \A n \in run[p].flagged_created :
        \E i \in DOMAIN donations :
            donations[i].no = run[p].no /\ donations[i].num = n

\* The session of a run is open: logged in and not yet released.
SessionOpen(l) == l.authed /\ "LOGOUT" \notin l.cmds

\* close was attempted and logout was called.
SessionReleased(l) == {"CLOSE", "LOGOUT"} \subseteq l.cmds

\* The position of the loop body, counted from its end.
StageRank(pc) ==
    CASE pc = "fetch" -> 7
      [] pc = "decode" -> 6
      [] pc = "classify" -> 5
      [] pc = "donor" -> 4
      [] pc = "insert" -> 3
      [] pc = "store_tx" -> 2
      [] pc \in {"store", "commit"} -> 1
      [] OTHER -> 0

\* A bound on the number of steps a run takes until its finally block has
\* run: the finally block itself, the steps left for the message at hand
\* and eight more for every message that follows it.
StepsToRelease(l) ==
    CASE l.pc = "select" -> 8 * Len(mail) + 3
      [] l.pc = "search" -> 8 * Len(mail) + 2
      [] l.pc = "finally" -> 1
      [] l.pc \in {"finish", "done", "raised"} -> 0
      [] OTHER -> 8 * (Len(l.ids) - l.pos) + StageRank(l.pc) + 1

\* C6: after a successful login the session is released on every exit
\* path: a run that has left the try block (normally, by the early return,
\* by a failed select or by an exception in the loop) has attempted close
\* and called logout.  And every run reaches that release: it selects at
\* most limit messages, and while its session is open it always has a next
\* step, each of which brings the finally block nearer.
C6_SessionReleased ==
    /\ [](\A p \in Procs :
            run[p].authed /\ run[p].pc \in {"finish", "done", "raised"} =>
                SessionReleased(run[p]))
    /\ [](\A p \in Procs :
            SessionOpen(run[p]) =>
                /\ ENABLED Step(p)
                /\ Len(run[p].ids) <= run[p].limit
                /\ StepsToRelease(run[p]) >= 0)
    /\ [][\A p \in Procs :
            SessionOpen(run[p]) /\ run'[p] # run[p] =>
                /\ StepsToRelease(run'[p]) < StepsToRelease(run[p])
                /\ SessionOpen(run'[p]) \/ SessionReleased(run'[p])]_vars

\* A run was aborted by an exception in the loop, after at least one
\* message was processed, and has released its session.
C6_Witness ==
    \E p \in Procs :
        /\ run[p].authed /\ run[p].pc = "raised"
        /\ run[p].ev = "fetch_error" /\ run[p].pos >= 2
        /\ SessionReleased(run[p])

\* C7: a run that ends without a login (missing credentials, failed
\* connect or login) ends with an error and has touched nothing: no
\* SELECT, SEARCH, FETCH or STORE was issued, no flag, Donor, Donation or
\* state file was written, and no summary is printed.
C7_AuthFailureTouchesNothing ==
    \A p \in Procs :
        Ended(run[p]) /\ ~run[p].authed =>
            /\ run[p].pc = "raised" /\ run[p].exc
            /\ run[p].cmds \cap {"SELECT", "SEARCH", "FETCH", "STORE"} = {}
            /\ ~run[p].saved
            /\ flags = run[p].snap.flags
            /\ donors = run[p].snap.donors
            /\ donations = run[p].snap.donations
            /\ stateFile = run[p].snap.stateFile

\* A connect or login failed while the folder holds an unread message.
C7_Witness ==
    \E p \in Procs :
        /\ run[p].pc = "raised" /\ run[p].ev = "connect_failed"
        /\ \E n \in DOMAIN mail : n \notin flags

\* C8: a fetch failure or a decode failure of one message is not fatal
\* (the loop goes on with the next message or ends normally) and is not
\* counted in parse_failed, which counts only the messages the allowlist
\* or the parser rejected.
C8_FetchDecodeFailureNonFatal ==
    \A p \in Procs :
        /\ run[p].ev \in {"fetch_no", "fetch_error", "decode_failed", "bad_data"} =>
              ~run[p].exc /\ run[p].pc \in {"fetch", "finally", "finish", "done"}
        /\ run[p].parse_failed = run[p].rejected

\* C9: when the Donation insert of a message fails, the dedup set and the
\* flag of that message are not advanced and the run goes on with the
\* remaining messages: it is not aborted.
C9_InsertFailureContinues ==
    \A p \in Procs :
        run[p].ev = "insert_failed" =>
            /\ run[p].seen_tx = run[p].loaded
                  \cup {r.tx : r \in {donations[i] : i \in DOMAIN donations}}
            /\ ~run[p].exc
            /\ run[p].pc \in {"fetch", "finally", "finish", "done"}

\* C10: every run that got past the login ends with the summary line.
C10_SummaryAlways ==
    \A p \in Procs :
        Ended(run[p]) /\ run[p].authed => run[p].summary

\* C11: a failing write of the state file at the end of a real run is
\* written to stderr and does not raise: the step leaves ledger, flags and
\* state file alone, the rows the run committed are in the Donation table,
\* the messages it flagged carry the flag, and the run ends with the
\* summary line.
C11_SaveFailureReported ==
    /\ [](\A p \in Procs :
            run[p].ev = "save_failed" =>
                /\ ~run[p].dry
                /\ run[p].stderr /\ ~run[p].exc
                /\ run[p].pc = "done" /\ run[p].summary
                /\ run[p].pending = <<>>
                /\ Cardinality({i \in DOMAIN donations : donations[i].no = run[p].no})
                      = run[p].created
                /\ run[p].flagged_created \subseteq flags)
    /\ [][\A p \in Procs :
            run'[p].ev = "save_failed" /\ run[p].ev # "save_failed" =>
                /\ run[p].pc = "finish"
                /\ donations' = donations
                /\ donors' = donors
                /\ flags' = flags
                /\ stateFile' = stateFile]_vars

\* A real run committed and flagged a Donation, and its state file could
\* not be written.
C11_Witness ==
    \E p \in Procs :
        /\ run[p].ev = "save_failed"
        /\ run[p].created >= 1
        /\ run[p].flagged_created # {}

\* C12: the dedup set only grows and is persisted only after the scan.
\* During a run no transaction id leaves seen_tx, so it always holds the
\* set that was loaded; the state file is written by one step only, the
\* call of _save_state of a real run whose loop has finished and whose
\* session is released; that run takes no step after it, and the set
\* written holds the set that was loaded.
C12_DedupSetGrowsSavedLast ==
    /\ [](\A p \in Procs : run[p].loaded \subseteq run[p].seen_tx)
    /\ [](\A p \in Procs :
            run[p].saved =>
                /\ ~run[p].dry
                /\ run[p].pc = "done"
                /\ run[p].pos = Len(run[p].ids) + 1
                /\ SessionReleased(run[p]))
    /\ [][\A p \in Procs :
            run'[p].no = run[p].no => run[p].seen_tx \subseteq run'[p].seen_tx]_vars
    /\ [][stateFile' # stateFile =>
            \E p \in Procs :
                /\ run[p].pc = "finish" /\ ~run[p].dry
                /\ ~run[p].saved /\ run'[p].saved
                /\ SessionReleased(run[p])
                /\ stateFile' = save_state(run[p].seen_tx)
                /\ run[p].loaded \subseteq load_state(stateFile')]_vars

\* A run that loaded a transaction id from the state file and added
\* another one has written both to the state file.
C12_Witness ==
    \E p \in Procs :
        /\ run[p].saved /\ ~run[p].stderr
        /\ run[p].loaded # {}
        /\ run[p].seen_tx # run[p].loaded
        /\ load_state(stateFile) = run[p].seen_tx

\* ------------------------------------------------------------------------
\* Properties of the module-level functions
\* ------------------------------------------------------------------------

\* C13: the state store round trip.  _load_state after _save_state of a
\* set returns that set, whatever the order in which its elements were
\* added: every other order of adding the same elements gives the same
\* result.
C13_StateRoundTrip ==
    call.fn = "reload" /\ call.done =>
        /\ call.res = Range(call.arg)
        /\ \A other \in Seqs(Range(TxOrder), MaxAdds) :
              Range(other) = Range(call.arg) =>
                  load_state(save_state(Range(other))) = call.res

\* A set of two transaction ids, the later in Python's order added first
\* and one of them added twice, was saved and loaded again.
C13_Witness ==
    /\ call.fn = "reload" /\ call.done
    /\ Len(call.arg) = 3
    /\ call.arg[1] = TxA
    /\ Cardinality(call.res) = 2
    /\ Len(stateFile.items) = 2

\* C14: _load_state never fails and recognizes two documents.  A missing
\* file and a file that holds neither an object with a seen_tx_ids array
\* nor a bare array (no JSON, a number, true, false, null, a string, an
\* object without seen_tx_ids) give the empty set; an object with
\* seen_tx_ids and a bare array give the set of their elements as strings.
C14_LoadStateTolerant ==
    call.fn = "load" /\ call.done =>
        IF stateFile.kind \in {"array", "object"}
        THEN call.res = {stateFile.items[i].str : i \in DOMAIN stateFile.items}
        ELSE call.res = {}

\* C15: negative-signal precedence.  A body in which _NEGATIVE_RE finds a
\* sent-payment or withdrawal phrase is rejected, whatever else it holds.
C15_NegativeSignalRejects ==
    call.fn = "parse" /\ call.done /\ call.arg.negative => call.res = None

\* A rejected body with a negative signal that holds a labeled transaction
\* code, a labeled amount that normalizes and a payer line: without the
\* signal it is accepted.
C15_Witness ==
    /\ call.fn = "parse" /\ call.done /\ call.arg.negative
    /\ call.res = None
    /\ call.arg.tx # <<>> /\ call.arg.labeled # <<>> /\ call.arg.von # <<>>
    /\ parse_paypal_email([call.arg EXCEPT !.negative = FALSE]) # None

\* The amount string step 3 finds in a body: the first capture of the
\* labeled pattern, else the first capture of the fallback pattern.
AmountFound(raw) ==
    IF raw.labeled # <<>> THEN Some(raw.labeled[1].val)
    ELSE IF raw.fallback # <<>> THEN Some(raw.fallback[1])
    ELSE None

\* The payer name step 4 finds: the first payer label, else the first hero
\* line, else the empty string.
PayerFound(raw) ==
    IF raw.von # <<>> THEN raw.von[1]
    ELSE IF raw.hero # <<>> THEN raw.hero[1]
    ELSE ""

\* A body with its payer label and its hero line taken out.
WithoutPayer(raw) == [raw EXCEPT !.von = <<>>, !.hero = <<>>]

\* C16: the parser returns a complete record or None.  It returns a record
\* exactly when the body is not empty, holds no negative signal, holds a
\* labeled transaction id, and an amount is found that normalizes.  The
\* payer never changes acceptance: the same body without payer is accepted
\* alike and gives the same record but for payer_name, which is the empty
\* string when no payer is found.  A record has the four keys, a
\* transaction id of 13 to 19 characters, an amount in whole cents (two
\* fraction digits, not NaN) and the currency EUR.
C16_CompleteRecordOrNone ==
    call.fn = "parse" /\ call.done =>
        LET raw == call.arg
            bare == parse_paypal_email(WithoutPayer(raw))
        IN  /\ call.res # None <=>
                  /\ ~raw.empty /\ ~raw.negative
                  /\ raw.tx # <<>>
                  /\ AmountFound(raw) # None
                  /\ normalize_amount_to_decimal(AmountFound(raw)[1]) # None
            /\ call.res # None <=> bare # None
            /\ call.res # None =>
                  /\ DOMAIN call.res[1]
                        = {"transaction_id", "amount", "currency", "payer_name"}
                  /\ call.res[1].transaction_id = raw.tx[1]
                  /\ Len(call.res[1].transaction_id) \in 13..19
                  /\ ~call.res[1].amount.nan
                  /\ call.res[1].amount.cents \in Nat
                  /\ call.res[1].amount = bare[1].amount
                  /\ call.res[1].currency = "EUR"
                  /\ call.res[1].payer_name = PayerFound(raw)
                  /\ bare[1].payer_name = ""

\* A body without payer label and hero line, and without labeled amount,
\* is accepted with the fallback amount and an empty payer name.
C16_Witness ==
    /\ call.fn = "parse" /\ call.done
    /\ call.res # None
    /\ call.arg.labeled = <<>>
    /\ call.arg.von = <<>> /\ call.arg.hero = <<>>
    /\ call.res[1].payer_name = ""
    /\ call.res[1].amount = Finite(1250)

\* The values of the labeled amounts of a body whose label is in labels, in
\* text order.
LabeledWith(raw, labels) ==
    LET vals == [i \in DOMAIN raw.labeled |-> raw.labeled[i]]
        in(x) == x.label \in labels
        sel == SelectSeq(vals, in)
    IN  [i \in DOMAIN sel |-> sel[i].val]

\* C17: the order of amount extraction, for a body that passes the
\* negative check and holds a transaction id.  When the body holds an
\* amount labeled as received and a generically labeled one, the amount of
\* the record is the received one, wherever the two stand; and when no
\* labeled amount normalizes, the amount of the record is the one the
\* fallback pattern finds.
C17_ReceivedLabelPreferred ==
    call.fn = "parse" /\ call.done /\ ~call.arg.empty /\ ~call.arg.negative
        /\ call.arg.tx # <<>> =>
        LET raw == call.arg
            received == LabeledWith(raw, {"Erhaltener Betrag", "Empfangener Betrag"})
            generic == LabeledWith(raw, {"Betrag", "Amount"})
            usable(v) == normalize_amount_to_decimal(v) # None
        IN  /\ received # <<>> /\ generic # <<>> /\ usable(received[1]) =>
                  /\ call.res # None
                  /\ call.res[1].amount = normalize_amount_to_decimal(received[1])[1]
            /\ (\A i \in DOMAIN raw.labeled : ~usable(raw.labeled[i].val))
                  /\ raw.fallback # <<>> /\ usable(raw.fallback[1]) =>
                  /\ call.res # None
                  /\ call.res[1].amount = normalize_amount_to_decimal(raw.fallback[1])[1]

\* An amount string without its currency tokens and white space.
Stripped(amount_str) == Remove(amount_str, {"EUR", "eur", "€", " "})

\* A stripped amount string is numeric: digits and separators only, and at
\* least one digit.
Numeric(s) ==
    /\ \A i \in DOMAIN s : IsDigit(s[i]) \/ s[i] \in {".", ","}
    /\ \E i \in DOMAIN s : IsDigit(s[i])

\* The separator that is the decimal point by the rule: the later of "."
\* and "," when both occur, else the one that occurs ("." when none does).
DecimalPoint(s) ==
    IF Contains(s, ",") /\ (~Contains(s, ".") \/ RFind(s, ",") > RFind(s, "."))
    THEN "," ELSE "."

\* The stripped string read by the rule: the other separator is removed and
\* the decimal point is written ".".
ByRule(s) ==
    Replace(Remove(s, {".", ","} \ {DecimalPoint(s)}), DecimalPoint(s), ".")

\* C18: the separator rule of the normalizer.  A numeric string is read
\* with the later of "." and "," as the decimal point and the other
\* separator removed, and is quantized to whole cents; 1.234,56, 1,234.56
\* and 1234.56 give 1234.56 and 12,50 gives 12.50.  An empty, symbol-only
\* or otherwise non-numeric string gives None.
C18_SeparatorRule ==
    call.fn = "normalize" /\ call.done =>
        LET s == Stripped(call.arg)
        IN  /\ ~Numeric(s) => call.res = None
            /\ Numeric(s) /\ DecimalParses(ByRule(s)) =>
                  call.res = Some(Finite(Quantize(ByRule(s))))
            /\ call.arg \in {<<"1", ".", "2", "3", "4", ",", "5", "6">>,
                              <<"1", ",", "2", "3", "4", ".", "5", "6">>,
                              <<"1", "2", "3", "4", ".", "5", "6">>} =>
                  call.res = Some(Finite(123456))
            /\ call.arg = <<"1", "2", ",", "5", "0">> => call.res = Some(Finite(1250))

\* The first part of a message that is not an attachment and has the
\* content type ctype, 0 when there is none.
FirstInline(parts, ctype) ==
    LET cand == {i \in DOMAIN parts :
                    parts[i].ctype = ctype /\ ~parts[i].attachment /\ parts[i].payload # None}
    IN  IF cand = {} THEN 0 ELSE CHOOSE i \in cand : \A j \in cand : i <= j

\* C19: the body part that is used.  Attachments are never used; of the
\* other parts of a multipart message the first text/html part is used,
\* else the first text/plain part; a message that is not multipart is its
\* single part; the body is the empty string when no part qualifies.
C19_AttachmentsSkipped ==
    call.fn = "extract" /\ call.done =>
        LET parts == call.arg.parts
            chosen == IF ~call.arg.multipart THEN 1
                      ELSE IF FirstInline(parts, "text/html") # 0
                      THEN FirstInline(parts, "text/html")
                      ELSE FirstInline(parts, "text/plain")
        IN  call.res = IF chosen = 0 THEN EmptyBody ELSE parts[chosen].payload[1]

\* The payer name of the message a Donation row came from.
PayerOf(row) == ParsedCatalogue[mail[row.num]][1].payer_name

\* C20: donor resolution is a case-insensitive match-or-create.  No two
\* Donor rows have names that are equal when case is ignored; Donations
\* whose payer names are equal when case is ignored reference the same
\* Donor row; a Donation of a message without payer name has no donor, and
\* no Donor row has an empty name.
C20_DonorsCaseInsensitive ==
    /\ \A i, j \in DOMAIN donors : Lower(donors[i]) = Lower(donors[j]) => i = j
    /\ \A i \in DOMAIN donors : donors[i] # ""
    /\ \A i, j \in DOMAIN donations :
          /\ PayerOf(donations[i]) = "" => donations[i].donor = 0
          /\ PayerOf(donations[i]) # "" => donations[i].donor \in DOMAIN donors
          /\ PayerOf(donations[i]) # ""
                /\ Lower(PayerOf(donations[i])) = Lower(PayerOf(donations[j])) =>
                    donations[i].donor = donations[j].donor

\* ------------------------------------------------------------------------
\* Properties of the Donation table and of the capture endpoint
\* ------------------------------------------------------------------------

\* C21: message_id uniqueness.  No two rows of the Donation table hold the
\* same non-null message_id; a create whose message_id is already in the
\* table raises IntegrityError and leaves the table as it was; a create
\* without message_id always inserts its row, whatever rows without
\* message_id the table holds.
C21_MessageIdUnique ==
    /\ \A i, j \in DOMAIN donations :
          (i # j /\ donations[i].message_id # None)
              => donations[i].message_id # donations[j].message_id
    /\ call.fn = "create" =>
          LET row   == call.arg.row
              table == call.arg.table
              taken == \E i \in DOMAIN table : table[i].message_id = row.message_id
          IN  /\ (row.message_id # None /\ taken)
                    => call.res.raised = "IntegrityError" /\ donations = table
              /\ (row.message_id = None \/ ~taken)
                    => call.res.raised = "" /\ donations = Append(table, row)

\* A create was refused for its message_id while the table holds that
\* message_id once, and two rows without message_id beside it.
C21_Witness ==
    /\ call.fn = "create"
    /\ call.res.raised = "IntegrityError"
    /\ Cardinality({i \in DOMAIN donations :
                       donations[i].message_id = call.arg.row.message_id}) = 1
    /\ Cardinality({i \in DOMAIN donations : donations[i].message_id = None}) >= 2

\* The requests the claim says are answered 201: a JSON object with a
\* non-empty string order_id, whose verification returns a result in EUR.
Verifiable(req) ==
    /\ req.json = "object"
    /\ req.order_id.type = "string" /\ req.order_id.str # ""
    /\ Verified(req).raised = ""
    /\ Verified(req).value # None
    /\ Verified(req).value[1].currency = "EUR"

\* C22: a POST is answered 201 and adds exactly one Donation with the
\* verified amount when its body is a JSON document with a non-empty
\* string order_id whose verification returns a result in EUR; every other
\* POST is answered 400 and leaves the Donation table as it was; GET is
\* answered 405.
C22_CaptureOnlyVerifiedEur ==
    call.fn = "capture" =>
        LET req   == call.arg.req
            table == call.arg.table
        IN  IF call.arg.method # "post"
            THEN call.res.status = 405 /\ donations = table
            ELSE IF Verifiable(req)
            THEN /\ call.res.status = 201
                 /\ donations =
                        Append(table, DonationRow(Verified(req).value[1].amount, None))
            ELSE call.res.status = 400 /\ donations = table

\* C23: verify_paypal_order never raises.  Under every behaviour of the
\* configuration lookup and of the two gateway calls the call returns None
\* or {amount, currency}, and it returns a result only when the order
\* status is COMPLETED and a capture of the order has status COMPLETED.
C23_VerifyNeverRaises ==
    (call.fn = "verify" /\ call.done) =>
        LET order == call.arg.gateway.order
        IN  /\ call.res.raised = ""
            /\ call.res.value # None =>
                  /\ order.status = "COMPLETED"
                  /\ \E u \in DOMAIN order.purchase_units :
                        \E k \in DOMAIN order.purchase_units[u] :
                            order.purchase_units[u][k].status = "COMPLETED"

\* ------------------------------------------------------------------------
\* Properties of the selection, the flags and the counters
\* ------------------------------------------------------------------------

\* The step of p is the return of _search_ids.
Searched(p) ==
    run[p].pc = "search" /\ run'[p].ev \in {"searched", "no_messages"}

\* The last limit elements of a sequence.
MostRecent(all, limit) ==
    IF Len(all) > limit THEN SubSeq(all, Len(all) - limit + 1, Len(all)) ELSE all

\* The effective limit the claim gives for an option value.
ClaimedLimit(opt) == IF opt = 0 THEN DefaultLimit ELSE IF opt < 0 THEN 1 ELSE opt

\* C24 as stated: whenever an unread message exists only unread messages
\* are selected; when none exists the most recent messages of the whole
\* folder are selected; the number selected never exceeds the effective
\* limit, which is at least 1 (0 becomes 50, a negative limit 1).
C24_SelectionAsStated ==
    [][\A p \in Procs : Searched(p) =>
          LET limit  == run[p].limit
              ids    == run'[p].ids
              unread == Numbers(Len(mail), flags, TRUE)
              all    == Numbers(Len(mail), flags, FALSE)
          IN  /\ limit >= 1
              /\ Len(ids) <= limit
              /\ unread # <<>> =>
                    ids # <<>> /\ \A i \in DOMAIN ids : ids[i] \notin flags
              /\ unread = <<>> => ids = MostRecent(all, limit)]_vars

\* C24, amended: when SEARCH UNSEEN answers OK and an unread message exists,
\* the selection is the first limit unread messages; otherwise (no unread
\* message, or SEARCH UNSEEN not answered OK) it is the last limit messages
\* of the whole folder when SEARCH ALL answers OK and empty when it does
\* not; the number selected never exceeds the effective limit, which is at
\* least 1 (0 becomes 50, a negative limit 1, a positive one is kept).
C24_Selection ==
    [][/\ \A opt \in LimitOpts \cup {2, DefaultLimit} :
             EffectiveLimit(opt) = ClaimedLimit(opt)
       /\ \A p \in Procs : Searched(p) =>
             LET limit  == run[p].limit
                 ids    == run'[p].ids
                 typ    == run'[p].typ
                 unread == Numbers(Len(mail), flags, TRUE)
                 all    == Numbers(Len(mail), flags, FALSE)
             IN  /\ limit >= 1
                 /\ Len(ids) <= limit
                 /\ (typ[1] = "OK" /\ unread # <<>>) =>
                       ids = SubSeq(unread, 1, Min(limit, Len(unread)))
                 /\ (typ[1] # "OK" \/ unread = <<>>) =>
                       ids = IF typ[2] = "OK" THEN MostRecent(all, limit) ELSE <<>>]_vars

\* A search has just selected the one unread message of a folder that also
\* holds a read one, or the newer of two unread or two read messages under
\* a limit of 1.
C24_Witness ==
    \E p \in Procs :
        /\ run[p].ev = "searched" /\ run[p].pc = "fetch"
        /\ run[p].typ = <<"OK", "OK">>
        /\ Len(mail) = NMsg
        /\ flags # {}
        /\ \E n \in 1..Len(mail) : n \notin flags
        /\ \A i \in DOMAIN run[p].ids : run[p].ids[i] \notin flags

\* The message was classified as non-PayPal, rejected by the parser or
\* found to be a duplicate.
Skipped(l) == l.ev \in {"not_paypal", "rejected", "duplicate"}

\* The run is a real one with mark_seen enabled.
Flagging(l) == ~l.dry /\ l.mark_seen

\* The step of p moves its loop on from the message it is at.
MovesOn(p) ==
    run[p].pos \in DOMAIN run[p].ids /\ run'[p].pos = run[p].pos + 1

C27_Allowlist ==
    [][/\ \A i \in DOMAIN donations :
             donations[i].num \in DOMAIN mail
                 => LooksLikePayPal(Catalogue[mail[donations[i].num]])
       /\ \A p \in Procs :
             (run[p].pc = "classify" /\ run'[p] # run[p]
                 /\ ~(Msg(run[p]).subject_paypal \/ Msg(run[p]).from_paypal))
                => /\ run'[p].ev = "not_paypal"
                   /\ run'[p].pc \in {"store", "fetch", "finally"}
                   /\ donors' = donors /\ donations' = donations
                   /\ run'[p].pending = run[p].pending
                   /\ run'[p].seen_tx = run[p].seen_tx
                   /\ run'[p].processed = run[p].processed + 1
                   /\ run'[p].parse_failed = run[p].parse_failed + 1
                   /\ run'[p].created = run[p].created
                   /\ run'[p].already_seen = run[p].already_seen]_vars

\* The allowlist has just turned away a message whose body the parser
\* accepts, as the first message of the run.
C27_Witness ==
    \E p \in Procs :
        /\ run[p].pc = "store" /\ run[p].ev = "not_paypal"
        /\ Parsed(run[p]) # None
        /\ run[p].processed = 1 /\ run[p].parse_failed = 1

\* C28: counter consistency.  When a run has written the summary, created
\* is the number of Donation rows the run committed, created +
\* already_seen + parse_failed is at most processed, processed is at most
\* the number of selected messages, and in a real run without a decode
\* failure processed equals created + already_seen + parse_failed.
C28_CounterConsistency ==
    \A p \in Procs :
        run[p].summary =>
            LET l == run[p]
                committed == Cardinality({i \in DOMAIN donations : donations[i].no = l.no})
            IN  /\ l.created = committed
                /\ l.created + l.already_seen + l.parse_failed <= l.processed
                /\ l.processed <= Len(l.ids)
                /\ (~l.dry /\ l.parse_failed = l.rejected)
                      => l.processed = l.created + l.already_seen + l.parse_failed

\* ------------------------------------------------------------------------
\* Properties of overlapping runs
\* ------------------------------------------------------------------------

\* The transaction ids of the rows a run has inserted.
OwnTx(l) == {r.tx : r \in RowsOf(l)}

\* C25: overlapping runs are not protected against double acceptance.
\* The state C25_Witness describes is reachable, for the reasons the claim
\* gives, which hold of every step: the dedup set of a run is the set it
\* loaded at its start plus the ids it inserted itself, whatever the other
\* run has committed; a parsed message is a duplicate exactly when its id
\* is in that set; and the state file changes only in the step that ends a
\* real run.
C25_DedupIsPerRun ==
    [][\A p \in Procs :
          /\ run[p].pc \notin {"idle", "raised"} =>
                run[p].seen_tx = run[p].loaded \cup OwnTx(run[p])
          /\ (run[p].pc = "classify" /\ run'[p] # run[p]
                 /\ LooksLikePayPal(Msg(run[p])) /\ Parsed(run[p]) # None)
                => (run'[p].ev = "duplicate"
                       <=> Parsed(run[p])[1].transaction_id \in run[p].seen_tx)
          /\ (run'[p] # run[p] /\ stateFile' # stateFile)
                => run[p].pc = "finish" /\ ~run[p].dry /\ run'[p].pc = "done"]_vars

\* Both runs are still at work and each has committed a Donation for the
\* same transaction id.
C25_Witness ==
    /\ \A p \in Procs : run[p].pc \notin {"idle", "done", "raised"}
    /\ \E i, j \in DOMAIN donations :
          /\ donations[i].tx = donations[j].tx
          /\ donations[i].no = run["p1"].no
          /\ donations[j].no = run["p2"].no

\* ------------------------------------------------------------------------
\* Progress of scheduled runs
\* ------------------------------------------------------------------------

\* The message is one the allowlist passes and the parser accepts.
Accepted(n) ==
    /\ LooksLikePayPal(Catalogue[mail[n]])
    /\ ParsedCatalogue[mail[n]] # None

\* The number of Donation rows for the transaction id of message n.
RowsFor(n) ==
    Cardinality({i \in DOMAIN donations :
                    donations[i].tx = ParsedCatalogue[mail[n]][1].transaction_id})

\* C29: progress over repeated runs.  In a sequence of real runs with
\* mark_seen enabled that do not overlap and in which nothing fails, every
\* message of the folder, unread at first, is eventually selected and
\* classified (and so flagged \Seen) by some run, whatever the limits of the
\* runs; and for every received-payment message from PayPal that the
\* parser accepts there is, from some point on, exactly one Donation with
\* its transaction id.
C29_Progress ==
    \A n \in 1..NMsg :
        /\ <>(n \in DOMAIN mail => n \in flags)
        /\ <>[](n \in DOMAIN mail /\ Accepted(n) => RowsFor(n) = 1)

\* Two runs of limit 1 have flagged the messages of a full folder one after
\* the other, and the ledger holds a Donation.
C29_Witness ==
    /\ Len(mail) = Min(NMsg, MaxRuns) /\ Len(mail) >= 2
    /\ nRuns >= 2
    /\ run["p1"].limit = 1 /\ run["p1"].pc = "done"
    /\ flags = DOMAIN mail
    /\ donations # <<>>
    /\ \A n \in DOMAIN mail : Accepted(n) => RowsFor(n) = 1

====
